---- MODULE Spec2Model ----
(***************************************************************************)
(* A model of local_rag: the settings loader (config.py), the session      *)
(* scope helper, the bootstrap routine and the declared schema (db.py).    *)
(* Text values are sequences of one-character strings, so that formatting  *)
(* and parsing are computed and not assumed.                               *)
(***************************************************************************)
EXTENDS Integers, Sequences, FiniteSets, TLC

VARIABLES
    environ,      \* os.environ: a function from the keys that are set to their text
    dotenv,       \* the contents of the local .env file, same shape
    settings,     \* the Settings value at hand (NoSettings before there is one)
    loadResult,   \* how the last get_settings call ended
    connString    \* the last value read from Settings.pg_connection_string

cfgVars == <<environ, dotenv, settings, loadResult, connString>>

VARIABLES
    scopePc,      \* where the current session_scope call is
    scopes,       \* how many session_scope calls have been entered
    calls,        \* the methods called on the current scope's session, in order
    inflight,     \* the exception propagating inside session_scope (NoExc: none)
    raised,       \* what the block, commit, rollback and close of this scope raised
    outcome       \* what the with statement's caller got (NoExc: a normal exit)

scopeVars == <<scopePc, scopes, calls, inflight, raised, outcome>>

VARIABLES
    db,           \* the committed schema: extension, tables, index
    bPc,          \* per bootstrap call: the statement it is at
    bSettings,    \* per bootstrap call: the hnsw_m and hnsw_ef_construction it got
    pending,      \* per bootstrap call: what its open transaction has not committed
    found,        \* per bootstrap call: what its index existence check fetched
    issued,       \* per bootstrap call: the statements it has issued, in order
    bErr,         \* per bootstrap call: the error it raised (NoError: none)
    dbAfter       \* per bootstrap call: the committed schema when the call ended

bootVars == <<db, bPc, bSettings, pending, found, issued, bErr, dbAfter>>

VARIABLES
    documents,    \* the rows of table documents
    chunks,       \* the rows of table chunks
    lastInsert    \* how the last INSERT ended

rowVars == <<documents, chunks, lastInsert>>

vars == <<cfgVars, scopeVars, bootVars, rowVars>>

\* ------------------------------------------------------------------ bounds

\* How many keys of the base environment an initial environment may change.
MaxChanged == 2

\* How many session_scope calls one behaviour makes, one after the other.
MaxScopes == 2

\* How many bootstrap calls one behaviour makes.
MaxCalls == 2

\* How many rows the tables documents and chunks may come to hold.
MaxDocuments == 2

MaxChunks == 3

\* ------------------------------------------------------------ text values

Digits == <<"0", "1", "2", "3", "4", "5", "6", "7", "8", "9">>

IsDigit(c) == \E i \in 1..10 : Digits[i] = c

DigitVal(c) == (CHOOSE i \in 1..10 : Digits[i] = c) - 1

IsSpace(c) == c \in {" ", "\t", "\n"}

\* str(n) for an int n: decimal digits, a leading "-" for a negative number.
RECURSIVE StrOfNat(_)
StrOfNat(n) ==
    IF n < 10 THEN <<Digits[n + 1]>>
    ELSE StrOfNat(n \div 10) \o <<Digits[(n % 10) + 1]>>

StrOfInt(n) == IF n < 0 THEN <<"-">> \o StrOfNat(0 - n) ELSE StrOfNat(n)

RECURSIVE LStrip(_)
LStrip(s) == IF s # <<>> /\ IsSpace(Head(s)) THEN LStrip(Tail(s)) ELSE s

RECURSIVE RStrip(_)
RStrip(s) ==
    IF s # <<>> /\ IsSpace(s[Len(s)]) THEN RStrip(SubSeq(s, 1, Len(s) - 1)) ELSE s

\* The digit part int() accepts: digits, single underscores only between digits.
RECURSIVE IsDigitRun(_)
IsDigitRun(s) ==
    /\ s # <<>>
    /\ IsDigit(Head(s))
    /\ \/ Len(s) = 1
       \/ /\ Len(s) > 1
          /\ IF s[2] = "_" THEN IsDigitRun(Tail(Tail(s))) ELSE IsDigitRun(Tail(s))

RECURSIVE DigitRunVal(_, _)
DigitRunVal(s, acc) ==
    IF s = <<>> THEN acc
    ELSE IF Head(s) = "_" THEN DigitRunVal(Tail(s), acc)
    ELSE DigitRunVal(Tail(s), acc * 10 + DigitVal(Head(s)))

\* int() that forgets the sign.
IntOfStr_unsigned(s) ==
    LET t == RStrip(LStrip(s))
        signed == t # <<>> /\ Head(t) \in {"+", "-"}
        body == IF signed THEN Tail(t) ELSE t
    IN  IF IsDigitRun(body)
        THEN [ok |-> TRUE, val |-> DigitRunVal(body, 0)]
        ELSE [ok |-> FALSE, val |-> 0]

\* int(value) for a text value: surrounding whitespace is dropped, one sign is
\* allowed, the rest must be a digit run; anything else raises ValueError.
IntOfStr(s) ==
    LET t == RStrip(LStrip(s))
        signed == t # <<>> /\ Head(t) \in {"+", "-"}
        body == IF signed THEN Tail(t) ELSE t
        mag == DigitRunVal(body, 0)
    IN  IF IsDigitRun(body)
        THEN [ok |-> TRUE, val |-> IF signed /\ Head(t) = "-" THEN 0 - mag ELSE mag]
        ELSE [ok |-> FALSE, val |-> 0]

\* ---------------------------------------------------------------- Settings

\* Optional[str]
NoneStr == [some |-> FALSE, val |-> <<>>]

Some(v) == [some |-> TRUE, val |-> v]

\* The keyword arguments of the Settings(...) call of get_settings, in the order
\* Python evaluates them.  dflt is the default handed to get_env or get_int_env.
FieldSpecs == <<
    [key |-> "OCR_MODEL_NAME",       isInt |-> FALSE, hasDflt |-> FALSE, strDflt |-> <<>>, intDflt |-> 0],
    [key |-> "OCR_API_URL",          isInt |-> FALSE, hasDflt |-> FALSE, strDflt |-> <<>>, intDflt |-> 0],
    [key |-> "EMBED_MODEL_NAME",     isInt |-> FALSE, hasDflt |-> FALSE, strDflt |-> <<>>, intDflt |-> 0],
    [key |-> "EMBED_API_URL",        isInt |-> FALSE, hasDflt |-> FALSE, strDflt |-> <<>>, intDflt |-> 0],
    [key |-> "EMBED_BATCH_SIZE",     isInt |-> TRUE,  hasDflt |-> TRUE,  strDflt |-> <<>>, intDflt |-> 32],
    [key |-> "CHAT_MODEL_NAME",      isInt |-> FALSE, hasDflt |-> FALSE, strDflt |-> <<>>, intDflt |-> 0],
    [key |-> "CHAT_API_URL",         isInt |-> FALSE, hasDflt |-> FALSE, strDflt |-> <<>>, intDflt |-> 0],
    [key |-> "PG_HOST",              isInt |-> FALSE, hasDflt |-> TRUE,
     strDflt |-> <<"l", "o", "c", "a", "l", "h", "o", "s", "t">>, intDflt |-> 0],
    [key |-> "PG_PORT",              isInt |-> TRUE,  hasDflt |-> TRUE,  strDflt |-> <<>>, intDflt |-> 5432],
    [key |-> "PG_USER",              isInt |-> FALSE, hasDflt |-> FALSE, strDflt |-> <<>>, intDflt |-> 0],
    [key |-> "PG_PASSWORD",          isInt |-> FALSE, hasDflt |-> FALSE, strDflt |-> <<>>, intDflt |-> 0],
    [key |-> "PG_DATABASE",          isInt |-> FALSE, hasDflt |-> FALSE, strDflt |-> <<>>, intDflt |-> 0],
    [key |-> "APP_HOST",             isInt |-> FALSE, hasDflt |-> TRUE,
     strDflt |-> <<"l", "o", "c", "a", "l", "h", "o", "s", "t">>, intDflt |-> 0],
    [key |-> "APP_PORT",             isInt |-> TRUE,  hasDflt |-> TRUE,  strDflt |-> <<>>, intDflt |-> 5000],
    [key |-> "DOC_ROOT",             isInt |-> FALSE, hasDflt |-> FALSE, strDflt |-> <<>>, intDflt |-> 0],
    [key |-> "HNSW_M",               isInt |-> TRUE,  hasDflt |-> TRUE,  strDflt |-> <<>>, intDflt |-> 16],
    [key |-> "HNSW_EF_CONSTRUCTION", isInt |-> TRUE,  hasDflt |-> TRUE,  strDflt |-> <<>>, intDflt |-> 64]
>>

NFields == Len(FieldSpecs)

Keys == {FieldSpecs[i].key : i \in 1..NFields}

IntKeys == {FieldSpecs[i].key : i \in {j \in 1..NFields : FieldSpecs[j].isInt}}

IndexOfKey(k) == CHOOSE i \in 1..NFields : FieldSpecs[i].key = k

\* load_dotenv(): a key of the .env file is set in os.environ unless the process
\* environment already sets it.
load_dotenv(env, file) ==
    [k \in DOMAIN env \cup DOMAIN file |-> IF k \in DOMAIN env THEN env[k] ELSE file[k]]

\* get_env without the check for None: an unset key yields the empty text.
get_env_unchecked(env, key, default) ==
    LET value == IF key \in DOMAIN env THEN Some(env[key]) ELSE default
    IN  [ok |-> TRUE, err |-> "", key |-> key, str |-> value.val, int |-> 0]

\* get_env(key, default, required=True): os.environ.get(key, default); None raises.
get_env(env, key, default) ==
    LET value == IF key \in DOMAIN env THEN Some(env[key]) ELSE default
    IN  IF ~value.some
        THEN [ok |-> FALSE, err |-> "required", key |-> key, str |-> <<>>, int |-> 0]
        ELSE [ok |-> TRUE, err |-> "", key |-> key, str |-> value.val, int |-> 0]

\* get_int_env without the except clause's re-raise: an unparseable text yields 0.
get_int_env_lenient(env, key, hasDflt, default) ==
    LET got == get_env(env, key, IF hasDflt THEN Some(StrOfInt(default)) ELSE NoneStr)
        parsed == IntOfStr(got.str)
    IN  IF ~got.ok THEN got
        ELSE [ok |-> TRUE, err |-> "", key |-> key, str |-> <<>>, int |-> parsed.val]

\* get_int_env(key, default, required=True): the default goes through str() and,
\* like a supplied value, back through int().
get_int_env(env, key, hasDflt, default) ==
    LET got == get_env(env, key, IF hasDflt THEN Some(StrOfInt(default)) ELSE NoneStr)
        parsed == IntOfStr(got.str)
    IN  IF ~got.ok THEN got
        ELSE IF ~parsed.ok
        THEN [ok |-> FALSE, err |-> "integer", key |-> key, str |-> <<>>, int |-> 0]
        ELSE [ok |-> TRUE, err |-> "", key |-> key, str |-> <<>>, int |-> parsed.val]

\* One keyword argument of the Settings(...) call.
EvalField(env, i) ==
    LET f == FieldSpecs[i]
    IN  IF f.isInt THEN get_int_env(env, f.key, f.hasDflt, f.intDflt)
        ELSE get_env(env, f.key, IF f.hasDflt THEN Some(f.strDflt) ELSE NoneStr)

NoSettings == [set |-> FALSE]

NoResult == [status |-> "none", err |-> "", key |-> ""]

\* get_settings() on an environment already seeded: the arguments are evaluated
\* in order, the first one that raises ends the call.
SettingsFrom(env) ==
    LET bad == {i \in 1..NFields : ~EvalField(env, i).ok}
        v(k) == EvalField(env, IndexOfKey(k))
    IN  IF bad # {}
        THEN LET first == CHOOSE i \in bad : \A j \in bad : i <= j
             IN  [result |-> [status |-> "raised", err |-> EvalField(env, first).err,
                              key |-> EvalField(env, first).key],
                  value |-> NoSettings]
        ELSE [result |-> [status |-> "returned", err |-> "", key |-> ""],
              value |-> [set |-> TRUE,
                         ocr_model_name |-> v("OCR_MODEL_NAME").str,
                         ocr_api_url |-> v("OCR_API_URL").str,
                         embed_model_name |-> v("EMBED_MODEL_NAME").str,
                         embed_api_url |-> v("EMBED_API_URL").str,
                         embed_batch_size |-> v("EMBED_BATCH_SIZE").int,
                         chat_model_name |-> v("CHAT_MODEL_NAME").str,
                         chat_api_url |-> v("CHAT_API_URL").str,
                         pg_host |-> v("PG_HOST").str,
                         pg_port |-> v("PG_PORT").int,
                         pg_user |-> v("PG_USER").str,
                         pg_password |-> v("PG_PASSWORD").str,
                         pg_database |-> v("PG_DATABASE").str,
                         app_host |-> v("APP_HOST").str,
                         app_port |-> v("APP_PORT").int,
                         doc_root |-> v("DOC_ROOT").str,
                         hnsw_m |-> v("HNSW_M").int,
                         hnsw_ef_construction |-> v("HNSW_EF_CONSTRUCTION").int]]

\* The field of a Settings value that get_settings fills from integer key k.
IntFieldOf(s, k) ==
    CASE k = "EMBED_BATCH_SIZE" -> s.embed_batch_size
      [] k = "PG_PORT" -> s.pg_port
      [] k = "APP_PORT" -> s.app_port
      [] k = "HNSW_M" -> s.hnsw_m
      [] k = "HNSW_EF_CONSTRUCTION" -> s.hnsw_ef_construction

\* A connection string with host and user in each other's place.
pg_connection_string_swapped(s) ==
    <<"p", "o", "s", "t", "g", "r", "e", "s", "q", "l", ":", "/", "/">>
        \o s.pg_host \o <<":">> \o s.pg_password \o <<"@">>
        \o s.pg_user \o <<":">> \o StrOfInt(s.pg_port) \o <<"/">> \o s.pg_database

\* Settings.pg_connection_string
pg_connection_string(s) ==
    <<"p", "o", "s", "t", "g", "r", "e", "s", "q", "l", ":", "/", "/">>
        \o s.pg_user \o <<":">> \o s.pg_password \o <<"@">>
        \o s.pg_host \o <<":">> \o StrOfInt(s.pg_port) \o <<"/">> \o s.pg_database

\* ------------------------------------------------------- the environments

\* The environment of test_get_settings, with shorter texts.
BaseEnv ==
    [k \in Keys |->
        CASE k = "EMBED_BATCH_SIZE" -> <<"3", "2">>
          [] k = "PG_PORT" -> <<"5", "4", "3", "2">>
          [] k = "APP_PORT" -> <<"5", "0", "0", "0">>
          [] k = "HNSW_M" -> <<"1", "6">>
          [] k = "HNSW_EF_CONSTRUCTION" -> <<"6", "4">>
          [] k = "PG_HOST" -> <<"d", "b">>
          [] k = "APP_HOST" -> <<"l", "o", "c", "a", "l", "h", "o", "s", "t">>
          [] OTHER -> <<"t">>]

\* Other texts a key may hold.
IntTexts == <<<<" ", "-", "1", "_", "0", "\n">>, <<"0", "7">>, <<"a", "b", "c">>, <<>>>>

StrTexts == <<<<>>, <<"a", "@", "b">>>>

TextsOf(k) == IF k \in IntKeys THEN IntTexts ELSE StrTexts

\* The base environment with the keys of S changed as c says: c[k] = 0 unsets k
\* (os.environ.pop), c[k] = i sets it to the i-th text of TextsOf(k).
EnvOf(S, c) ==
    [k \in Keys \ {j \in S : c[j] = 0} |->
        IF k \in S THEN TextsOf(k)[c[k]] ELSE BaseEnv[k]]

\* env with key k set to v
SetKey(env, k, v) == [j \in DOMAIN env \cup {k} |-> IF j = k THEN v ELSE env[j]]

\* The .env files tried: none or an empty one, or one that sets a single key.
DotenvKeys == {"PG_USER", "PG_PORT"}

DotenvFiles ==
    {<<>>} \cup {SetKey(<<>>, k, BaseEnv[k]) : k \in DotenvKeys}

\* ------------------------------------------------------------ exceptions

\* An exception object: the call that raised it and its type.  Two raises are
\* two objects, told apart by site and type.
NoExc == [site |-> "none", type |-> "none"]

ExceptionTypes == {"ValueError", "OperationalError"}

\* BaseException subclasses that are no Exception.
InterruptTypes == {"KeyboardInterrupt"}

RaisedAt(site) == [site : {site}, type : ExceptionTypes \cup InterruptTypes]

\* isinstance(e, Exception): what "except Exception" catches.
IsException(e) == e.type \in ExceptionTypes

NothingRaised == [block |-> NoExc, commit |-> NoExc, rollback |-> NoExc, close |-> NoExc]

ScopeIdle ==
    /\ scopePc = "idle"
    /\ scopes = 0
    /\ calls = <<>>
    /\ inflight = NoExc
    /\ raised = NothingRaised
    /\ outcome = NoExc

\* ---------------------------------------------------------------- schema

Tables == {"documents", "chunks"}

NoIndex == [present |-> FALSE, m |-> 0, ef |-> 0]

\* A database in which bootstrap has never run.
EmptyDb == [extension |-> FALSE, tables |-> {}, index |-> NoIndex]

NoPending == [extension |-> FALSE, index |-> NoIndex]

NoError == [kind |-> "none", step |-> "none"]

Callers == 1..MaxCalls

NoInsert == [table |-> "none", accepted |-> FALSE, reason |-> ""]

NoRows ==
    /\ documents = {}
    /\ chunks = {}
    /\ lastInsert = NoInsert

BootIdle ==
    /\ bPc = [c \in Callers |-> "idle"]
    /\ bSettings = [c \in Callers |-> [m |-> 0, ef |-> 0]]
    /\ pending = [c \in Callers |-> NoPending]
    /\ found = [c \in Callers |-> FALSE]
    /\ issued = [c \in Callers |-> <<>>]
    /\ bErr = [c \in Callers |-> NoError]
    /\ dbAfter = [c \in Callers |-> EmptyDb]

\* --------------------------------------------------------- settings loader

\* get_settings(): seed os.environ from the .env file, then build the Settings
\* value or raise ValueError.
GetSettings ==
    /\ loadResult.status = "none"
    /\ LET seeded == load_dotenv(environ, dotenv)
           r == SettingsFrom(seeded)
       IN  /\ environ' = seeded
           /\ settings' = r.value
           /\ loadResult' = r.result
    /\ UNCHANGED <<dotenv, connString, scopeVars, bootVars, rowVars>>

\* A read of the property Settings.pg_connection_string.
ReadConnectionString ==
    /\ settings.set
    /\ connString = <<>>
    /\ connString' = pg_connection_string(settings)
    /\ UNCHANGED <<environ, dotenv, settings, loadResult, scopeVars, bootVars, rowVars>>

InitConfig ==
    /\ ScopeIdle
    /\ BootIdle
    /\ db = EmptyDb
    /\ NoRows
    /\ \E S \in SUBSET Keys :
          /\ Cardinality(S) <= MaxChanged
          /\ \E c \in [S -> 0..Len(IntTexts)] :
                /\ \A k \in S : c[k] <= Len(TextsOf(k))
                /\ environ = EnvOf(S, c)
    /\ dotenv \in DotenvFiles
    /\ settings = NoSettings
    /\ loadResult = NoResult
    /\ connString = <<>>

NextConfig == GetSettings \/ ReadConnectionString

SpecConfig == InitConfig /\ [][NextConfig]_vars

\* ------------------------------------------------ the settings loader's claims

Called == loadResult.status # "none"

\* Key k is set to a text int() accepts, or is unset and has a default.
KeyValid(k) ==
    IF k \in DOMAIN environ
    THEN k \in IntKeys => IntOfStr(environ[k]).ok
    ELSE FieldSpecs[IndexOfKey(k)].hasDflt

\* The string settings the specification calls required.
ClaimedRequired ==
    {"OCR_MODEL_NAME", "OCR_API_URL", "EMBED_MODEL_NAME", "EMBED_API_URL",
     "CHAT_MODEL_NAME", "CHAT_API_URL", "PG_HOST", "PG_USER", "PG_PASSWORD",
     "PG_DATABASE", "DOC_ROOT"}

OnlyMissing(k) ==
    /\ Called
    /\ k \notin DOMAIN environ
    /\ \A j \in Keys \ {k} : j \in DOMAIN environ /\ KeyValid(j)

FailsNaming(k, err) ==
    /\ loadResult.status = "raised"
    /\ loadResult.err = err
    /\ loadResult.key = k
    /\ ~settings.set

Localhost == <<"l", "o", "c", "a", "l", "h", "o", "s", "t">>

\* C5 as stated: with any one of the eleven string settings unset and every other
\* key valid, get_settings raises the error naming that key and returns nothing.
\* PG_HOST unset refutes it.
C5_AsStated == \A k \in ClaimedRequired : OnlyMissing(k) => FailsNaming(k, "required")

\* C5 amended: that holds of the ten string settings other than PG_HOST; with
\* only PG_HOST unset get_settings returns a Settings value whose pg_host is
\* "localhost".
C5_MissingRequired ==
    /\ \A k \in ClaimedRequired \ {"PG_HOST"} :
            OnlyMissing(k) => FailsNaming(k, "required")
    /\ OnlyMissing("PG_HOST") =>
            /\ loadResult.status = "returned"
            /\ settings.set
            /\ settings.pg_host = Localhost

C5_Witness ==
    \/ OnlyMissing("PG_DATABASE") /\ FailsNaming("PG_DATABASE", "required")
    \/ OnlyMissing("PG_HOST") /\ loadResult.status = "returned"

Unparseable(k) == Called /\ k \in DOMAIN environ /\ ~IntOfStr(environ[k]).ok

\* C6 as stated: an integer key set to a text that is no integer makes
\* get_settings raise the error naming that key, whatever the other keys hold.
\* A key read earlier that is unset or unparseable refutes it.
C6_AsStated == \A k \in IntKeys : Unparseable(k) => FailsNaming(k, "integer")

\* C6 amended: get_settings then raises whatever the other keys hold; the error
\* names the first key, in the order the Settings arguments are read, that is
\* unset without a default or unparseable, which is k when no earlier key is.
C6_InvalidInteger ==
    \A k \in IntKeys :
        Unparseable(k) =>
            /\ loadResult.status = "raised"
            /\ ~settings.set
            /\ IndexOfKey(loadResult.key) <= IndexOfKey(k)
            /\ ~KeyValid(loadResult.key)
            /\ \A i \in 1..(IndexOfKey(loadResult.key) - 1) : KeyValid(FieldSpecs[i].key)
            /\ loadResult.err = (IF loadResult.key \in DOMAIN environ THEN "integer" ELSE "required")
            /\ (\A i \in 1..(IndexOfKey(k) - 1) : KeyValid(FieldSpecs[i].key))
                    => FailsNaming(k, "integer")

C6_Witness ==
    \E k \in IntKeys :
        /\ Unparseable(k)
        /\ FailsNaming(k, "integer")
        /\ \E j \in Keys \ {k} : ~KeyValid(j)

\* What int() makes of the texts the environments hold.
ExpectedInt(t) ==
    CASE t = <<"3", "2">> -> 32
      [] t = <<"5", "4", "3", "2">> -> 5432
      [] t = <<"5", "0", "0", "0">> -> 5000
      [] t = <<"1", "6">> -> 16
      [] t = <<"6", "4">> -> 64
      [] t = <<" ", "-", "1", "_", "0", "\n">> -> 0 - 10
      [] t = <<"0", "7">> -> 7

ExpectedDefault(k) ==
    CASE k = "EMBED_BATCH_SIZE" -> 32
      [] k = "PG_PORT" -> 5432
      [] k = "APP_PORT" -> 5000
      [] k = "HNSW_M" -> 16
      [] k = "HNSW_EF_CONSTRUCTION" -> 64

\* C7: once get_settings has run with every string key that has no default set
\* and every integer key unset or parseable, it has returned a Settings value in
\* which each integer field is its default (32, 5432, 5000, 16, 64) when its key
\* is unset and the integer its text denotes when the key is set.
C7_IntegerDefaults ==
    (Called /\ \A k \in Keys : KeyValid(k)) =>
        /\ loadResult.status = "returned"
        /\ settings.set
        /\ \A k \in IntKeys :
              IntFieldOf(settings, k) =
                  (IF k \in DOMAIN environ THEN ExpectedInt(environ[k]) ELSE ExpectedDefault(k))

C7_Witness ==
    /\ loadResult.status = "returned"
    /\ "PG_PORT" \notin DOMAIN environ
    /\ settings.pg_port = 5432
    /\ "HNSW_M" \in DOMAIN environ
    /\ settings.hnsw_m = 0 - 10

\* ------------------------------------------------- the connection string

\* Settings values built by the constructor, as test_pg_connection_string
\* builds one: the dataclass checks nothing, so any text is a component.
UserTexts == {<<"t", "e", "s", "t", "-", "u", "s", "e", "r">>, <<>>, <<"a", "@", "b">>}

PasswordTexts == {<<"t", "e", "s", "t", "-", "p", "a", "s", "s", "w", "o", "r", "d">>, <<"p", ":", "/">>}

HostTexts == {<<"t", "e", "s", "t", "-", "h", "o", "s", "t">>, <<"h">>}

DatabaseTexts == {<<"t", "e", "s", "t", "-", "d", "b">>, <<>>}

\* The ports tried, each with the text Python formats it to.
PortTexts ==
    {[n |-> 5432, text |-> <<"5", "4", "3", "2">>],
     [n |-> 0, text |-> <<"0">>],
     [n |-> 0 - 1, text |-> <<"-", "1">>],
     [n |-> 65536, text |-> <<"6", "5", "5", "3", "6">>]}

\* Settings(...): the dataclass constructor stores its arguments unchanged.
Settings(user, password, host, port, database) ==
    [set |-> TRUE,
     ocr_model_name |-> <<"t">>, ocr_api_url |-> <<"t">>,
     embed_model_name |-> <<"t">>, embed_api_url |-> <<"t">>, embed_batch_size |-> 32,
     chat_model_name |-> <<"t">>, chat_api_url |-> <<"t">>,
     pg_host |-> host, pg_port |-> port, pg_user |-> user,
     pg_password |-> password, pg_database |-> database,
     app_host |-> <<"l", "o", "c", "a", "l", "h", "o", "s", "t">>, app_port |-> 5000,
     doc_root |-> <<"t">>, hnsw_m |-> 16, hnsw_ef_construction |-> 64]

InitConn ==
    /\ ScopeIdle
    /\ BootIdle
    /\ db = EmptyDb
    /\ NoRows
    /\ environ = BaseEnv
    /\ dotenv = <<>>
    /\ loadResult = NoResult
    /\ connString = <<>>
    /\ \E u \in UserTexts, pw \in PasswordTexts, h \in HostTexts, d \in DatabaseTexts,
          p \in PortTexts :
          settings = Settings(u, pw, h, p.n, d)

NextConn == ReadConnectionString

SpecConn == InitConn /\ [][NextConn]_vars

Scheme == <<"p", "o", "s", "t", "g", "r", "e", "s", "q", "l", ":", "/", "/">>

\* The part of s that starts after the first n items and is as long as t is t.
HasAt(s, n, t) == Len(s) >= n + Len(t) /\ SubSeq(s, n + 1, n + Len(t)) = t

PortTextOf(n) == (CHOOSE p \in PortTexts : p.n = n).text

\* The string test_pg_connection_string expects.
TestConnectionString ==
    <<"p", "o", "s", "t", "g", "r", "e", "s", "q", "l", ":", "/", "/", "t", "e", "s", "t", "-", "u", "s", "e", "r", ":", "t", "e", "s", "t", "-", "p", "a", "s", "s", "w", "o", "r", "d", "@", "t", "e", "s", "t", "-", "h", "o", "s", "t", ":", "5", "4", "3", "2", "/", "t", "e", "s", "t", "-", "d", "b">>

\* C8: a connection string that has been read is, item for item, the scheme
\* "postgresql://", the user, ":", the password, "@", the host, ":", the port in
\* decimal, "/", the database, and nothing more; a component holding "@", ":" or
\* "/" or holding nothing is copied as it is.  For the values of
\* test_pg_connection_string that is the string the test expects.
C8_ConnectionString ==
    connString # <<>> =>
        LET u == settings.pg_user
            pw == settings.pg_password
            h == settings.pg_host
            pt == PortTextOf(settings.pg_port)
            d == settings.pg_database
            a == Len(Scheme) + Len(u)
            b == a + 1 + Len(pw)
            c == b + 1 + Len(h)
            e == c + 1 + Len(pt)
        IN  /\ HasAt(connString, 0, Scheme)
            /\ HasAt(connString, Len(Scheme), u)
            /\ HasAt(connString, a, <<":">>)
            /\ HasAt(connString, a + 1, pw)
            /\ HasAt(connString, b, <<"@">>)
            /\ HasAt(connString, b + 1, h)
            /\ HasAt(connString, c, <<":">>)
            /\ HasAt(connString, c + 1, pt)
            /\ HasAt(connString, e, <<"/">>)
            /\ HasAt(connString, e + 1, d)
            /\ Len(connString) = e + 1 + Len(d)
            /\ (Len(u) = 9 /\ Len(pw) = 13 /\ Len(h) = 9 /\ Len(pt) = 4 /\ Len(d) = 7)
                    => connString = TestConnectionString

\* A malformed connection string, from components nothing has checked.
C8_Witness ==
    /\ settings.pg_user = <<"a", "@", "b">>
    /\ settings.pg_password = <<"p", ":", "/">>
    /\ settings.pg_database = <<>>
    /\ settings.pg_port = 0 - 1
    /\ connString = <<"p", "o", "s", "t", "g", "r", "e", "s", "q", "l", ":", "/", "/", "a", "@", "b", ":", "p", ":", "/", "@", "h", ":", "-", "1", "/">>

\* ------------------------------------------------------------ session_scope

\* Where control goes when e is raised inside the try block (at the yield or by
\* commit): "except Exception" takes an Exception to the rollback, anything else
\* goes straight to the finally clause.
ExceptTarget(e) == IF IsException(e) THEN "rollback" ELSE "close"

\* session = session_factory(): entering the with statement.  The factory (or
\* get_session() behind it) may raise; then there is no session and no scope.
EnterScope ==
    /\ scopePc \in {"idle", "exited"}
    /\ scopes < MaxScopes
    /\ scopes' = scopes + 1
    /\ calls' = <<>>
    /\ inflight' = NoExc
    /\ raised' = NothingRaised
    /\ \E r \in {NoExc} \cup RaisedAt("factory") :
          /\ outcome' = r
          /\ scopePc' = IF r = NoExc THEN "block" ELSE "exited"
    /\ UNCHANGED <<cfgVars, bootVars, rowVars>>

\* The with block runs with the yielded session and ends: normally, or by an
\* exception that the context manager throws into the generator at the yield.
Block ==
    /\ scopePc = "block"
    /\ \E r \in {NoExc} \cup RaisedAt("block") :
          /\ raised' = [raised EXCEPT !.block = r]
          /\ inflight' = r
          /\ scopePc' = IF r = NoExc THEN "commit" ELSE ExceptTarget(r)
    /\ UNCHANGED <<scopes, calls, outcome, cfgVars, bootVars, rowVars>>

\* session.commit(), still inside the try block.
Commit ==
    /\ scopePc = "commit"
    /\ calls' = Append(calls, "commit")
    /\ \E r \in {NoExc} \cup RaisedAt("commit") :
          /\ raised' = [raised EXCEPT !.commit = r]
          /\ inflight' = r
          /\ scopePc' = IF r = NoExc THEN "close" ELSE ExceptTarget(r)
    /\ UNCHANGED <<scopes, outcome, cfgVars, bootVars, rowVars>>

\* The except clause without its raise: the caught exception is dropped.
Rollback_swallow ==
    /\ scopePc = "rollback"
    /\ calls' = Append(calls, "rollback")
    /\ \E r \in {NoExc} \cup RaisedAt("rollback") :
          /\ raised' = [raised EXCEPT !.rollback = r]
          /\ inflight' = r
    /\ scopePc' = "close"
    /\ UNCHANGED <<scopes, outcome, cfgVars, bootVars, rowVars>>

\* The except clause with the rollback after the raise: never reached.
Rollback_skipped ==
    /\ scopePc = "rollback"
    /\ raised' = raised
    /\ inflight' = inflight
    /\ calls' = calls
    /\ scopePc' = "close"
    /\ UNCHANGED <<scopes, outcome, cfgVars, bootVars, rowVars>>

\* except Exception: session.rollback(); raise.  The bare raise re-raises the
\* caught exception; a rollback that raises puts its own exception in flight.
Rollback ==
    /\ scopePc = "rollback"
    /\ calls' = Append(calls, "rollback")
    /\ \E r \in {NoExc} \cup RaisedAt("rollback") :
          /\ raised' = [raised EXCEPT !.rollback = r]
          /\ inflight' = IF r = NoExc THEN inflight ELSE r
    /\ scopePc' = "close"
    /\ UNCHANGED <<scopes, outcome, cfgVars, bootVars, rowVars>>

\* session.close() after the try statement and not in a finally clause: an
\* exception in flight leaves the generator without it.
Close_nofinally ==
    /\ scopePc = "close"
    /\ scopePc' = "exited"
    /\ IF inflight # NoExc
       THEN /\ outcome' = inflight
            /\ UNCHANGED <<calls, raised>>
       ELSE /\ calls' = Append(calls, "close")
            /\ \E r \in {NoExc} \cup RaisedAt("close") :
                  /\ raised' = [raised EXCEPT !.close = r]
                  /\ outcome' = r
    /\ UNCHANGED <<scopes, inflight, cfgVars, bootVars, rowVars>>

\* finally: session.close().  The exception in flight, if any, then leaves the
\* generator and the with statement; a close that raises replaces it.
Close ==
    /\ scopePc = "close"
    /\ calls' = Append(calls, "close")
    /\ scopePc' = "exited"
    /\ \E r \in {NoExc} \cup RaisedAt("close") :
          /\ raised' = [raised EXCEPT !.close = r]
          /\ outcome' = IF r = NoExc THEN inflight ELSE r
    /\ UNCHANGED <<scopes, inflight, cfgVars, bootVars, rowVars>>

InitSession ==
    /\ ScopeIdle
    /\ BootIdle
    /\ db = EmptyDb
    /\ NoRows
    /\ environ = BaseEnv
    /\ dotenv = <<>>
    /\ settings = NoSettings
    /\ loadResult = NoResult
    /\ connString = <<>>

NextSession == EnterScope \/ Block \/ Commit \/ Rollback \/ Close

SpecSession == InitSession /\ [][NextSession]_vars

\* ------------------------------------------------------ session_scope's claims

Count(seq, x) == Cardinality({i \in DOMAIN seq : seq[i] = x})

\* The current scope has left the with statement, and it had acquired a session.
Exited == scopePc = "exited" /\ outcome.site # "factory"

\* The exception that leaves the scope: the last one raised by the block, the
\* commit, the rollback or the close.
LastRaised ==
    IF raised.close # NoExc THEN raised.close
    ELSE IF raised.rollback # NoExc THEN raised.rollback
    ELSE IF raised.commit # NoExc THEN raised.commit
    ELSE raised.block

\* C2 as stated, read of the failures that are Exceptions: after one is raised
\* in the block the session saw exactly one rollback, no commit, a close after
\* the rollback, and the caller got the very exception the block raised.  A
\* rollback or a close that raises refutes it.
C2_AsStated ==
    (Exited /\ IsException(raised.block)) =>
        /\ calls = <<"rollback", "close">>
        /\ outcome = raised.block

\* C2 amended: after an Exception raised in the block the session saw exactly
\* one rollback, no commit and then the close; the caller got the block's own
\* exception unless the rollback or the close raised, and then the exception of
\* the last of them that did.  After a failure that is no Exception
\* (KeyboardInterrupt) there is no rollback and no commit, only the close.  In
\* neither case is the failure swallowed.
C2_RollbackOnException ==
    (Exited /\ raised.block # NoExc) =>
        /\ Count(calls, "commit") = 0
        /\ calls = (IF IsException(raised.block) THEN <<"rollback", "close">> ELSE <<"close">>)
        /\ outcome # NoExc
        /\ outcome = LastRaised
        /\ (raised.rollback = NoExc /\ raised.close = NoExc) => outcome = raised.block

C2_Witness ==
    /\ Exited
    /\ raised.block = [site |-> "block", type |-> "ValueError"]
    /\ calls = <<"rollback", "close">>
    /\ outcome = raised.block

\* C3 as stated: after a block that completed normally the session saw exactly
\* one commit, no rollback, and one close after the commit.  A commit that
\* raises an Exception refutes it.
C3_AsStated == (Exited /\ raised.block = NoExc) => calls = <<"commit", "close">>

\* C3 amended: after a block that completed normally the session saw exactly
\* one commit and exactly one close, the close after the commit; it saw no
\* rollback unless the commit raised an Exception, and then exactly one, between
\* the commit and the close.
C3_CommitOnSuccess ==
    (Exited /\ raised.block = NoExc) =>
        /\ Count(calls, "commit") = 1
        /\ Count(calls, "close") = 1
        /\ calls[1] = "commit"
        /\ calls[Len(calls)] = "close"
        /\ Count(calls, "rollback") = (IF IsException(raised.commit) THEN 1 ELSE 0)
        /\ Len(calls) = 2 + Count(calls, "rollback")

C3_Witness ==
    /\ Exited
    /\ raised.block = NoExc
    /\ calls = <<"commit", "close">>
    /\ outcome = NoExc

\* C4: a scope that has left the with statement with a session has closed it
\* exactly once, as the last call on it, whichever way it left; while the scope
\* is still inside, the session is not closed, so no commit or rollback ever
\* follows a close; a scope whose factory raised has no session and calls nothing.
C4_CloseExactlyOnce ==
    /\ Exited => Count(calls, "close") = 1 /\ calls[Len(calls)] = "close"
    /\ \A i \in DOMAIN calls : calls[i] = "close" => i = Len(calls)
    /\ scopePc \in {"block", "commit", "rollback", "close"} => Count(calls, "close") = 0
    /\ (scopePc = "exited" /\ outcome.site = "factory") => calls = <<>>

\* A scope that left by a commit that failed and a rollback that failed too.
C4_Witness ==
    /\ Exited
    /\ IsException(raised.commit)
    /\ raised.rollback # NoExc
    /\ calls = <<"commit", "rollback", "close">>
    /\ outcome = raised.rollback

\* ---------------------------------------------------------------- bootstrap

\* The hnsw_m and hnsw_ef_construction a call's settings may hold: the defaults
\* and another pair.
HnswChoices == {[m |-> 16, ef |-> 64], [m |-> 8, ef |-> 32]}

\* An existence check that looks for no index of that name: it fetches nothing.
IndexExists_never(d) == FALSE

\* SELECT 1 FROM pg_indexes WHERE indexname = 'chunks_embedding_idx', then
\* result.fetchone(): a row when the committed schema holds the index.
IndexExists(d) == d.index.present

\* A failure handler that drops what the call had created.
AfterFailure_undo(d) == EmptyDb

\* The committed schema after a statement of bootstrap raised: bootstrap has no
\* except or finally clause, so nothing that was committed is undone.
AfterFailure(d) == d

\* A statement of call c raised at step: the exception leaves bootstrap, the
\* with statement closes the connection and with it the open transaction.
Raise(c, kind, step) ==
    /\ bPc' = [bPc EXCEPT ![c] = "raised"]
    /\ bErr' = [bErr EXCEPT ![c] = [kind |-> kind, step |-> step]]
    /\ pending' = [pending EXCEPT ![c] = NoPending]
    /\ db' = AfterFailure(db)
    /\ dbAfter' = [dbAfter EXCEPT ![c] = AfterFailure(db)]

\* Calls made one after the other: c starts when every earlier call has ended.
Serial(c) == \A o \in Callers : o < c => bPc[o] \in {"returned", "raised"}

\* bootstrap(engine, settings) is entered and opens its first connection.
BootstrapStart(c) ==
    /\ bPc[c] = "idle"
    /\ \E h \in HnswChoices : bSettings' = [bSettings EXCEPT ![c] = h]
    /\ \E ok \in BOOLEAN :
          IF ok
          THEN /\ bPc' = [bPc EXCEPT ![c] = "extension"]
               /\ UNCHANGED <<db, pending, bErr, dbAfter>>
          ELSE Raise(c, "failure", "connect")
    /\ UNCHANGED <<found, issued, cfgVars, scopeVars, rowVars>>

\* conn.execute(text("CREATE EXTENSION IF NOT EXISTS vector"))
CreateExtension(c) ==
    /\ bPc[c] = "extension"
    /\ issued' = [issued EXCEPT ![c] = Append(@, "CREATE EXTENSION")]
    /\ \E ok \in BOOLEAN :
          IF ok
          THEN /\ bPc' = [bPc EXCEPT ![c] = "commit1"]
               /\ pending' = [pending EXCEPT ![c].extension = ~db.extension]
               /\ UNCHANGED <<db, bErr, dbAfter>>
          ELSE Raise(c, "failure", "extension")
    /\ UNCHANGED <<bSettings, found, cfgVars, scopeVars, rowVars>>

\* conn.commit() of the first connection, which the with statement then closes.
CommitExtension(c) ==
    /\ bPc[c] = "commit1"
    /\ issued' = [issued EXCEPT ![c] = Append(@, "COMMIT")]
    /\ \E ok \in BOOLEAN :
          IF ok
          THEN /\ bPc' = [bPc EXCEPT ![c] = "tables"]
               /\ db' = [db EXCEPT !.extension = @ \/ pending[c].extension]
               /\ pending' = [pending EXCEPT ![c] = NoPending]
               /\ UNCHANGED <<bErr, dbAfter>>
          ELSE Raise(c, "failure", "commit1")
    /\ UNCHANGED <<bSettings, found, cfgVars, scopeVars, rowVars>>

\* Base.metadata.create_all(engine): the tables of Document and Chunk that are
\* missing are created, in one transaction of its own; then the second
\* connection is opened.
CreateAll(c) ==
    /\ bPc[c] = "tables"
    /\ issued' = [issued EXCEPT ![c] = Append(@, "CREATE TABLES")]
    /\ \E ok \in BOOLEAN :
          IF ok
          THEN /\ bPc' = [bPc EXCEPT ![c] = "connect2"]
               /\ db' = [db EXCEPT !.tables = @ \cup Tables]
               /\ UNCHANGED <<pending, bErr, dbAfter>>
          ELSE Raise(c, "failure", "tables")
    /\ UNCHANGED <<bSettings, found, cfgVars, scopeVars, rowVars>>

\* with engine.connect() as conn: the second connection.
ConnectAgain(c) ==
    /\ bPc[c] = "connect2"
    /\ \E ok \in BOOLEAN :
          IF ok
          THEN /\ bPc' = [bPc EXCEPT ![c] = "check"]
               /\ UNCHANGED <<db, pending, bErr, dbAfter>>
          ELSE Raise(c, "failure", "connect2")
    /\ UNCHANGED <<bSettings, found, issued, cfgVars, scopeVars, rowVars>>

\* The existence check and the if on its result: with the index found the with
\* block, and bootstrap, end there.
CheckIndex(c) ==
    /\ bPc[c] = "check"
    /\ issued' = [issued EXCEPT ![c] = Append(@, "SELECT INDEX")]
    /\ \E ok \in BOOLEAN :
          IF ok
          THEN /\ found' = [found EXCEPT ![c] = IndexExists(db)]
               /\ bPc' = [bPc EXCEPT ![c] = IF IndexExists(db) THEN "returned" ELSE "index"]
               /\ dbAfter' = [dbAfter EXCEPT ![c] = IF IndexExists(db) THEN db ELSE @]
               /\ UNCHANGED <<db, pending, bErr>>
          ELSE /\ Raise(c, "failure", "check")
               /\ UNCHANGED found
    /\ UNCHANGED <<bSettings, cfgVars, scopeVars, rowVars>>

\* A WITH clause whose two placeholders take each other's setting.
IndexOptions_swapped(s) == [m |-> StrOfInt(s.ef), ef |-> StrOfInt(s.m)]

\* The WITH clause of the CREATE INDEX statement: the f-string formats
\* settings.hnsw_m after "m = " and settings.hnsw_ef_construction after
\* "ef_construction = ".
IndexOptions(s) == [m |-> StrOfInt(s.m), ef |-> StrOfInt(s.ef)]

\* CREATE INDEX IF NOT EXISTS: an index of that name already committed is left
\* as it is and the statement succeeds.
CreateIndex_if_not_exists(c) ==
    /\ bPc[c] = "index"
    /\ \A o \in Callers \ {c} : ~pending[o].index.present
    /\ issued' = [issued EXCEPT ![c] = Append(@, "CREATE INDEX")]
    /\ \E ok \in BOOLEAN :
          IF ok /\ "chunks" \in db.tables
          THEN /\ bPc' = [bPc EXCEPT ![c] = "commit2"]
               /\ pending' = [pending EXCEPT ![c].index =
                                 IF db.index.present THEN db.index
                                 ELSE [present |-> TRUE,
                                       m |-> IntOfStr(IndexOptions(bSettings[c]).m).val,
                                       ef |-> IntOfStr(IndexOptions(bSettings[c]).ef).val]]
               /\ UNCHANGED <<db, bErr, dbAfter>>
          ELSE Raise(c, "failure", "index")
    /\ UNCHANGED <<bSettings, found, cfgVars, scopeVars, rowVars>>

\* conn.execute(text("CREATE INDEX chunks_embedding_idx ON chunks USING hnsw
\* (embedding vector_l2_ops) WITH (m = ..., ef_construction = ...)")): the
\* index gets the numbers that the text of the WITH clause reads as.  There is
\* no IF NOT EXISTS: an index of that name already committed is a
\* duplicate-object error.  The statement waits for another transaction that is
\* creating the index.
CreateIndex(c) ==
    /\ bPc[c] = "index"
    /\ \A o \in Callers \ {c} : ~pending[o].index.present
    /\ issued' = [issued EXCEPT ![c] = Append(@, "CREATE INDEX")]
    /\ \E ok \in BOOLEAN :
          IF db.index.present \/ "chunks" \notin db.tables
          THEN Raise(c, IF db.index.present THEN "duplicate" ELSE "failure", "index")
          ELSE IF ok
          THEN /\ bPc' = [bPc EXCEPT ![c] = "commit2"]
               /\ pending' = [pending EXCEPT ![c].index =
                                 [present |-> TRUE,
                                  m |-> IntOfStr(IndexOptions(bSettings[c]).m).val,
                                  ef |-> IntOfStr(IndexOptions(bSettings[c]).ef).val]]
               /\ UNCHANGED <<db, bErr, dbAfter>>
          ELSE Raise(c, "failure", "index")
    /\ UNCHANGED <<bSettings, found, cfgVars, scopeVars, rowVars>>

\* conn.commit() of the second connection; bootstrap then returns.
CommitIndex(c) ==
    /\ bPc[c] = "commit2"
    /\ issued' = [issued EXCEPT ![c] = Append(@, "COMMIT")]
    /\ \E ok \in BOOLEAN :
          IF ok
          THEN /\ bPc' = [bPc EXCEPT ![c] = "returned"]
               /\ db' = [db EXCEPT !.index = pending[c].index]
               /\ dbAfter' = [dbAfter EXCEPT ![c] = [db EXCEPT !.index = pending[c].index]]
               /\ pending' = [pending EXCEPT ![c] = NoPending]
               /\ UNCHANGED bErr
          ELSE Raise(c, "failure", "commit2")
    /\ UNCHANGED <<bSettings, found, cfgVars, scopeVars, rowVars>>

InitBootstrap ==
    /\ ScopeIdle
    /\ BootIdle
    /\ db = EmptyDb
    /\ NoRows
    /\ environ = BaseEnv
    /\ dotenv = <<>>
    /\ settings = NoSettings
    /\ loadResult = NoResult
    /\ connString = <<>>

NextBootstrap ==
    \E c \in Callers :
        \/ Serial(c) /\ BootstrapStart(c)
        \/ CreateExtension(c)
        \/ CommitExtension(c)
        \/ CreateAll(c)
        \/ ConnectAgain(c)
        \/ CheckIndex(c)
        \/ CreateIndex(c)
        \/ CommitIndex(c)

\* Bootstrap calls made one after the other against one database.
SpecBootstrap == InitBootstrap /\ [][NextBootstrap]_vars

\* Bootstrap calls of several processes against one database: nothing in
\* bootstrap orders one call's statements against another's, so a call may
\* start, and take any step, while others are under way.
NextConcurrent ==
    \E c \in Callers :
        \/ BootstrapStart(c)
        \/ CreateExtension(c)
        \/ CommitExtension(c)
        \/ CreateAll(c)
        \/ ConnectAgain(c)
        \/ CheckIndex(c)
        \/ CreateIndex(c)
        \/ CommitIndex(c)

SpecConcurrent == InitBootstrap /\ [][NextConcurrent]_vars

\* ----------------------------------------------------------- bootstrap's claims

Bootstrapped(d) == d.extension /\ d.tables = Tables /\ d.index.present

\* C1: of two bootstrap calls made one after the other that both returned, with
\* whatever settings each, the later one found the index by its existence check,
\* issued no CREATE INDEX, and left the schema (extension, both tables, the index
\* with the parameters the earlier call gave it) exactly as the earlier one left
\* it; and no call ever raised a duplicate-object error.
C1_Idempotent ==
    /\ \A c1, c2 \in Callers :
          (c1 < c2 /\ bPc[c1] = "returned" /\ bPc[c2] = "returned") =>
              /\ Bootstrapped(dbAfter[c1])
              /\ dbAfter[c2] = dbAfter[c1]
              /\ found[c2]
              /\ \A i \in DOMAIN issued[c2] : issued[c2][i] # "CREATE INDEX"
              /\ issued[c2] = <<"CREATE EXTENSION", "COMMIT", "CREATE TABLES", "SELECT INDEX">>
    /\ \A c \in Callers : bErr[c].kind # "duplicate"

\* Two calls with different settings; the index keeps the first call's.
C1_Witness ==
    /\ bPc[1] = "returned"
    /\ bPc[2] = "returned"
    /\ bSettings[1] = [m |-> 8, ef |-> 32]
    /\ bSettings[2] = [m |-> 16, ef |-> 64]
    /\ db = dbAfter[1]
    /\ db.index = [present |-> TRUE, m |-> 8, ef |-> 32]

\* The statements a call has issued when the given step raises.
IssuedUpTo(step) ==
    CASE step = "connect" -> <<>>
      [] step = "extension" -> <<"CREATE EXTENSION">>
      [] step = "commit1" -> <<"CREATE EXTENSION", "COMMIT">>
      [] step = "tables" -> <<"CREATE EXTENSION", "COMMIT", "CREATE TABLES">>
      [] step = "connect2" -> <<"CREATE EXTENSION", "COMMIT", "CREATE TABLES">>
      [] step = "check" -> <<"CREATE EXTENSION", "COMMIT", "CREATE TABLES", "SELECT INDEX">>
      [] step = "index" ->
            <<"CREATE EXTENSION", "COMMIT", "CREATE TABLES", "SELECT INDEX", "CREATE INDEX">>
      [] step = "commit2" ->
            <<"CREATE EXTENSION", "COMMIT", "CREATE TABLES", "SELECT INDEX", "CREATE INDEX",
              "COMMIT">>

\* C9: a bootstrap call in which a step failed has raised to its caller; the
\* statements it issued are those up to the failing one, each once, and none
\* after it; and what its earlier steps committed is in the schema then and
\* from then on: the extension once its commit was done, both tables once
\* create_all was.
C9_FailurePropagates ==
    \A c \in Callers :
        bPc[c] = "raised" =>
            /\ bErr[c].kind # "none"
            /\ issued[c] = IssuedUpTo(bErr[c].step)
            /\ bErr[c].step \in {"tables", "connect2", "check", "index", "commit2"} =>
                   dbAfter[c].extension /\ db.extension
            /\ bErr[c].step \in {"connect2", "check", "index", "commit2"} =>
                   dbAfter[c].tables = Tables /\ db.tables = Tables

\* The last commit failed: extension and tables stay, the index is not there.
C9_Witness ==
    /\ bPc[1] = "raised"
    /\ bErr[1].step = "commit2"
    /\ db.extension
    /\ db.tables = Tables
    /\ ~db.index.present

\* The statements of a bootstrap call that creates the index, in program order.
FullRun ==
    <<"CREATE EXTENSION", "COMMIT", "CREATE TABLES", "SELECT INDEX", "CREATE INDEX", "COMMIT">>

IsPrefix(s, t) == Len(s) <= Len(t) /\ s = SubSeq(t, 1, Len(s))

\* The index that CREATE INDEX with the given settings is to create.
IndexWith(s) == [present |-> TRUE, m |-> s.m, ef |-> s.ef]

\* C11: within one bootstrap call the statements are issued in one fixed order.
\* Table creation starts only after CREATE EXTENSION and its commit, with the
\* extension committed; the index existence check is issued only after table
\* creation has completed, with both tables there; CREATE INDEX is issued only
\* after a check that found the index absent, it creates the index with m and
\* ef_construction equal to the call's hnsw_m and hnsw_ef_construction, and a
\* call that returns after it has issued exactly one more commit; a call whose
\* check found the index has returned with neither a CREATE INDEX nor a second
\* commit.
C11_StepOrder ==
    \A c \in Callers :
        /\ IsPrefix(issued[c], FullRun)
        /\ bPc[c] = "tables" => issued[c] = SubSeq(FullRun, 1, 2)
        /\ Len(issued[c]) >= 3 \/ bPc[c] = "tables" => db.extension
        /\ bPc[c] \in {"connect2", "check"} => issued[c] = SubSeq(FullRun, 1, 3)
        /\ Len(issued[c]) >= 4 \/ bPc[c] \in {"connect2", "check"} => db.tables = Tables
        /\ bPc[c] = "index" => issued[c] = SubSeq(FullRun, 1, 4) /\ ~found[c]
        /\ Len(issued[c]) >= 5 => ~found[c]
        /\ bPc[c] = "commit2" =>
               /\ issued[c] = SubSeq(FullRun, 1, 5)
               /\ ~db.index.present
               /\ pending[c].index = IndexWith(bSettings[c])
        /\ found[c] => bPc[c] = "returned" /\ issued[c] = SubSeq(FullRun, 1, 4)
        /\ bPc[c] = "returned" /\ ~found[c] =>
               /\ issued[c] = FullRun
               /\ dbAfter[c].index = IndexWith(bSettings[c])

\* One call created the index with m = 16 and ef_construction = 64 and
\* committed; the next call found it and stopped after its check.
C11_Witness ==
    /\ bPc[1] = "returned"
    /\ ~found[1]
    /\ issued[1] = FullRun
    /\ bSettings[1] = [m |-> 16, ef |-> 64]
    /\ db.index = [present |-> TRUE, m |-> 16, ef |-> 64]
    /\ bPc[2] = "returned"
    /\ found[2]
    /\ issued[2] = <<"CREATE EXTENSION", "COMMIT", "CREATE TABLES", "SELECT INDEX">>


\* The call returned after its own CREATE INDEX and commit.
CreatedIndex(c) == bPc[c] = "returned" /\ ~found[c]

\* C12: in every interleaving of bootstrap calls against a database that was
\* empty, the existence check and the creation are two steps: calls whose checks
\* all found the index absent each go on to CREATE INDEX, yet at most one call
\* holds an uncommitted index, at most one call's creation is committed, the
\* schema holds the index exactly when one call created it, with that call's
\* parameters, and a call whose CREATE INDEX raised got a duplicate-object error
\* exactly when the index was committed by then; that error comes only from
\* this race, to a call that had seen the index absent and issued nothing after
\* its CREATE INDEX.
C12_IndexRace ==
    /\ Cardinality({c \in Callers : CreatedIndex(c)}) <= 1
    /\ Cardinality({c \in Callers : pending[c].index.present}) <= 1
    /\ db.index.present <=>
           \E c \in Callers : CreatedIndex(c) /\ db.index = IndexWith(bSettings[c])
    /\ \A c \in Callers :
           /\ bPc[c] = "raised" /\ bErr[c].step = "index" =>
                  (bErr[c].kind = "duplicate" <=> dbAfter[c].index.present)
           /\ bErr[c].kind = "duplicate" =>
                  /\ bPc[c] = "raised"
                  /\ bErr[c].step = "index"
                  /\ ~found[c]
                  /\ issued[c] = SubSeq(FullRun, 1, 5)
                  /\ \E o \in Callers \ {c} : CreatedIndex(o) /\ dbAfter[c].index = dbAfter[o].index
    /\ \A c1, c2 \in Callers :
           (c1 # c2 /\ CreatedIndex(c1) /\ Len(issued[c2]) >= 5) =>
               /\ ~found[c2]
               /\ bPc[c2] = "raised"
               /\ bErr[c2].kind \in {"duplicate", "failure"}
               /\ db.index = IndexWith(bSettings[c1])

\* Both calls saw the index absent and both issued CREATE INDEX with settings
\* of their own; the second call's creation is committed, the first call got
\* the duplicate-object error, and the index has the second call's parameters.
C12_Witness ==
    /\ ~found[1]
    /\ ~found[2]
    /\ issued[1] = SubSeq(FullRun, 1, 5)
    /\ issued[2] = FullRun
    /\ bPc[1] = "raised"
    /\ bErr[1] = [kind |-> "duplicate", step |-> "index"]
    /\ bPc[2] = "returned"
    /\ bSettings[1] = [m |-> 16, ef |-> 64]
    /\ bSettings[2] = [m |-> 8, ef |-> 32]
    /\ db.index = [present |-> TRUE, m |-> 8, ef |-> 32]

\* --------------------------------------------------------------------- rows

NoneInt == [some |-> FALSE, val |-> 0]

\* The next value of a table's serial primary key.
NextId(rows) == Cardinality(rows) + 1

\* INSERT INTO documents: id is the primary key, path is NOT NULL and UNIQUE,
\* the two status columns are NOT NULL with default 0, md_path is nullable.
DocumentRejection(path, status_ocr, status_embed) ==
    IF ~path.some THEN "path is null"
    ELSE IF \E d \in documents : d.path = path.val THEN "path is not unique"
    ELSE ""

\* INSERT INTO chunks: id is the primary key, document_id is NOT NULL and a
\* foreign key to documents.id, sequence and text are NOT NULL, embedding is
\* nullable.  The table declares no other constraint.
ChunkRejection(document_id, sequence, txt) ==
    IF ~document_id.some THEN "document_id is null"
    ELSE IF ~sequence.some THEN "sequence is null"
    ELSE IF ~txt.some THEN "text is null"
    ELSE IF ~\E d \in documents : d.id = document_id.val THEN "no such document"
    ELSE ""

\* A Document is added and flushed.
InsertDocument ==
    /\ "documents" \in db.tables
    /\ Cardinality(documents) < MaxDocuments
    /\ \E path \in {NoneStr, Some(<<"a">>), Some(<<"b">>)},
          status_ocr \in {NoneInt, Some(2)} :
          LET why == DocumentRejection(path, status_ocr, NoneInt)
          IN  /\ lastInsert' = [table |-> "documents", accepted |-> why = "", reason |-> why]
              /\ documents' =
                    IF why # "" THEN documents
                    ELSE documents \cup
                         {[id |-> NextId(documents), path |-> path.val,
                           status_ocr |-> IF status_ocr.some THEN status_ocr.val ELSE 0,
                           status_embed |-> 0, md_path |-> NoneStr]}
    /\ UNCHANGED <<chunks, cfgVars, scopeVars, bootVars>>

\* A Chunk is added and flushed.
InsertChunk ==
    /\ "chunks" \in db.tables
    /\ Cardinality(chunks) < MaxChunks
    /\ \E document_id \in {NoneInt} \cup {Some(i) : i \in 1..(MaxDocuments + 1)},
          sequence \in {NoneInt, Some(0), Some(1)},
          txt \in {NoneStr, Some(<<"x">>)} :
          LET why == ChunkRejection(document_id, sequence, txt)
          IN  /\ lastInsert' = [table |-> "chunks", accepted |-> why = "", reason |-> why]
              /\ chunks' =
                    IF why # "" THEN chunks
                    ELSE chunks \cup
                         {[id |-> NextId(chunks), document_id |-> document_id.val,
                           sequence |-> sequence.val, text |-> txt.val,
                           embedding |-> NoneStr]}
    /\ UNCHANGED <<documents, cfgVars, scopeVars, bootVars>>

\* The schema as a bootstrap call that returned leaves it, with no rows yet.
InitRows ==
    /\ ScopeIdle
    /\ BootIdle
    /\ NoRows
    /\ db = [extension |-> TRUE, tables |-> Tables,
             index |-> [present |-> TRUE, m |-> 16, ef |-> 64]]
    /\ environ = BaseEnv
    /\ dotenv = <<>>
    /\ settings = NoSettings
    /\ loadResult = NoResult
    /\ connString = <<>>

NextRows == InsertDocument \/ InsertChunk

SpecRows == InitRows /\ [][NextRows]_vars

\* C10 as stated: no two rows of chunks have the same document_id and the same
\* sequence.  The table declares no such constraint: a second insert with the
\* pair of an existing row is accepted.
C10_AsStated ==
    \A k1, k2 \in chunks :
        (k1.document_id = k2.document_id /\ k1.sequence = k2.sequence) => k1.id = k2.id

====
